---- MODULE Spec2Model ----
(***************************************************************************)
(* Model of the POST /merge handler of src/index.js: validation, the two   *)
(* downloads, the ffmpeg invocation, the output check and read, cleanup    *)
(* and the response.  Node runs the handler's code between two awaits      *)
(* without interleaving, so each action is one such synchronous stretch,   *)
(* started by the event that resumes it.  Several requests share /tmp.     *)
(***************************************************************************)
EXTENDS Integers, Sequences, FiniteSets, TLC

\* ---- bounds ----
MaxTime == 1      \* Date.now() takes the values 0..MaxTime
MaxRand == 2      \* Math.random() suffix takes the values 1..MaxRand

\* two requests in flight at once: the handler keeps no state across
\* requests, so every interference is one between a pair of them
Reqs == {1, 2}
RandIds == 1..MaxRand

\* ---- inputs ----
Undefined == "undefined"
VideoUrls == {Undefined, "", "https://host/a.mp4"}
AudioUrls == {Undefined, "", "https://host/b.mp3"}

\* rejections of axios.get (status, timeout, size ceiling)
FetchErrors == {<<"Request failed with status code 404">>,
                <<"timeout exceeded">>}
\* 'error' events of the fs write stream
WriteErrors == {<<"ENOSPC: no space left on device, write">>}
\* exception of fs.readFileSync
ReadError == <<"EIO: i/o error, read">>
\* exception of fs.statSync on a path that does not exist
StatError == <<"ENOENT: no such file or directory, stat">>
\* stderr texts the tool can have produced
StderrTexts == {"Invalid data found when processing input"}
\* err.message of the tool's 'error' event: it may or may not quote stderr
ToolMessages(stderr) == {<<"ffmpeg exited with code 1: ", stderr>>,
                         <<"spawn ffmpeg ENOENT">>}

NoNames == [ts |-> -1, rnd |-> -1]
NoBody == [videoUrl |-> "-", audioUrl |-> "-"]
NoError == <<>>
NoToolErr == [message |-> <<>>, stderr |-> "-"]
NoObs == [ran |-> FALSE, before |-> {}, after |-> {}]
KindSet == {"video", "audio", "output"}

VARIABLES
  now,      \* value of Date.now()
  fs,       \* paths that exist under /tmp
  pc,       \* per request: the await at which its handler is suspended
  body,     \* per request: req.body (videoUrl, audioUrl)
  names,    \* per request: timestamp and randomId of its three paths
  thrown,   \* per request: error.message caught by the catch block
  toolErr,  \* per request: err.message and stderr of the tool's 'error' event
  obs,      \* per request: which of its files existed before / after cleanup
  trace,    \* per request: the effects of its handler, in order
  resp      \* per request: the responses sent

vars == <<now, fs, pc, body, names, thrown, toolErr, obs, trace, resp>>

\* ---- helpers ----
\* JavaScript truthiness of a request field (a string or undefined)
Truthy(x) == x # Undefined /\ x # ""

ValidMut(b) == Truthy(b.videoUrl) \/ Truthy(b.audioUrl)
\* negation of the guard `!videoUrl || !audioUrl`
Valid(b) == Truthy(b.videoUrl) /\ Truthy(b.audioUrl)

\* path.join(tempDir, `${kind}_${timestamp}_${randomId}.ext`)
PathOf(k, nm) == <<k, nm.ts, nm.rnd>>

UnlinkEvent(k) == CASE k = "video" -> "unlink_video"
                    [] k = "audio" -> "unlink_audio"
                    [] OTHER -> "unlink_output"

\* `if (fs.existsSync(p)) fs.unlinkSync(p);` inside the cleanup try block:
\* once an unlinkSync has thrown, the rest of the block is skipped
CleanupStep(s, nm, k, failK) ==
  IF s.threw THEN s
  ELSE IF PathOf(k, nm) \notin s.fs THEN s
  ELSE IF k \in failK
       THEN [s EXCEPT !.log = Append(@, UnlinkEvent(k)), !.threw = TRUE]
       ELSE [s EXCEPT !.fs = @ \ {PathOf(k, nm)},
                      !.log = Append(@, UnlinkEvent(k))]

\* the cleanup try/catch; failK = the kinds whose unlinkSync throws
Cleanup(fsys, nm, failK) ==
  LET s0 == [fs |-> fsys, log |-> <<"cleanup">>, threw |-> FALSE]
      s1 == CleanupStep(s0, nm, "video", failK)
      s2 == CleanupStep(s1, nm, "audio", failK)
      s3 == CleanupStep(s2, nm, "output", failK)
  IN [fs |-> s3.fs,
      log |-> IF s3.threw THEN Append(s3.log, "cleanupError") ELSE s3.log,
      threw |-> s3.threw]

\* the kinds of the request's files that exist in fsys
Existing(fsys, nm) == {k \in KindSet : PathOf(k, nm) \in fsys}

Response400 ==
  [status |-> 400, success |-> "absent", error |-> <<"Missing required fields">>,
   details |-> "absent", base64 |-> "absent", stats |-> "absent",
   required |-> <<"videoUrl", "audioUrl">>]

SuccessResponse ==
  [status |-> 200, success |-> "true", error |-> NoError,
   details |-> "absent", base64 |-> "present", stats |-> "present",
   required |-> <<>>]

ErrorResponseMut(msg) ==
  [status |-> 200, success |-> "false", error |-> msg,
   details |-> "stack", base64 |-> "absent", stats |-> "absent",
   required |-> <<>>]
\* res.status(500).json({success:false, error: error.message, details: error.stack})
ErrorResponse(msg) ==
  [status |-> 500, success |-> "false", error |-> msg,
   details |-> "stack", base64 |-> "absent", stats |-> "absent",
   required |-> <<>>]

FfmpegErrorMessageMut(m, stderr) == <<"FFmpeg error: ", stderr>>
\* new Error(`FFmpeg error: ${err.message}`); stderr is only logged
FfmpegErrorMessage(m, stderr) == <<"FFmpeg error: ">> \o m

AfterCleanupMut(threw, reply) ==
  IF threw THEN ErrorResponse(<<"EPERM: operation not permitted, unlink">>)
  ELSE reply
\* the inner catch only logs cleanupError: the reply is the one intended
AfterCleanup(threw, reply) == reply

PcGet(k) == IF k = "video" THEN "getVideo" ELSE "getAudio"
PcOpen(k) == IF k = "video" THEN "openVideo" ELSE "openAudio"
PcPipe(k) == IF k = "video" THEN "pipeVideo" ELSE "pipeAudio"
PcStalled(k) == IF k = "video" THEN "stalledVideo" ELSE "stalledAudio"
EvFail(k) == IF k = "video" THEN "videoFail" ELSE "audioFail"
EvOpen(k) == IF k = "video" THEN "openVideo" ELSE "openAudio"
EvDone(k) == IF k = "video" THEN "videoDone" ELSE "audioDone"

Init ==
  /\ now = 0
  /\ fs = {}
  /\ pc = [r \in Reqs |-> "idle"]
  /\ body = [r \in Reqs |-> NoBody]
  /\ names = [r \in Reqs |-> NoNames]
  /\ thrown = [r \in Reqs |-> NoError]
  /\ toolErr = [r \in Reqs |-> NoToolErr]
  /\ obs = [r \in Reqs |-> NoObs]
  /\ trace = [r \in Reqs |-> <<>>]
  /\ resp = [r \in Reqs |-> <<>>]

\* the wall clock behind Date.now()
Tick ==
  /\ now < MaxTime
  /\ now' = now + 1
  /\ UNCHANGED <<fs, pc, body, names, thrown, toolErr, obs, trace, resp>>

\* the catch block: log, cleanup, 500 response.  pre = the events of the
\* try block that happened in this stretch before the exception
Catch(r, pre, msg, failK) ==
  LET c == Cleanup(fs, names[r], failK)
  IN /\ fs' = c.fs
     /\ thrown' = [thrown EXCEPT ![r] = msg]
     /\ obs' = [obs EXCEPT ![r] = [ran |-> TRUE,
                                   before |-> Existing(fs, names[r]),
                                   after |-> Existing(c.fs, names[r])]]
     /\ trace' = [trace EXCEPT ![r] = @ \o pre \o <<"catch">> \o c.log
                                        \o <<"respond">>]
     /\ resp' = [resp EXCEPT ![r] = Append(@, AfterCleanup(c.threw, ErrorResponse(msg)))]
     /\ pc' = [pc EXCEPT ![r] = "done"]

\* POST /merge arrives: validation, temp names, start of the video fetch.
\* Request ids number the requests in their order of arrival.
Receive(r, v, a) ==
  /\ pc[r] = "idle"
  /\ \A q \in Reqs : q < r => pc[q] # "idle"
  /\ body' = [body EXCEPT ![r] = [videoUrl |-> v, audioUrl |-> a]]
  /\ IF ~Valid([videoUrl |-> v, audioUrl |-> a])
     THEN /\ resp' = [resp EXCEPT ![r] = Append(@, Response400)]
          /\ pc' = [pc EXCEPT ![r] = "done"]
          /\ UNCHANGED <<names, trace>>
     ELSE /\ \E rnd \in RandIds :
               names' = [names EXCEPT ![r] = [ts |-> now, rnd |-> rnd]]
          /\ trace' = [trace EXCEPT ![r] = <<"paths", "getVideo">>]
          /\ pc' = [pc EXCEPT ![r] = "getVideo"]
          /\ UNCHANGED resp
  /\ UNCHANGED <<now, fs, thrown, toolErr, obs>>

GetRejectMut(r, k, m, failK) ==
  /\ pc[r] = PcGet(k)
  /\ m \in FetchErrors
  /\ trace' = [trace EXCEPT ![r] = @ \o <<EvFail(k), "ffmpeg">>]
  /\ pc' = [pc EXCEPT ![r] = "ffmpeg"]
  /\ UNCHANGED <<now, fs, body, names, thrown, toolErr, obs, resp>>
\* axios.get rejects (HTTP error status, timeout, size ceiling)
GetReject(r, k, m, failK) ==
  /\ pc[r] = PcGet(k)
  /\ m \in FetchErrors
  /\ Catch(r, <<EvFail(k)>>, m, failK)
  /\ UNCHANGED <<now, body, names, toolErr>>

\* axios.get resolves with the response stream: createWriteStream, pipe,
\* then the handler waits for the writer's 'finish' or 'error'
GetResolve(r, k) ==
  /\ pc[r] = PcGet(k)
  /\ pc' = [pc EXCEPT ![r] = PcOpen(k)]
  /\ UNCHANGED <<now, fs, body, names, thrown, toolErr, obs, trace, resp>>

\* the write stream opens its file (created or truncated)
WriterOpen(r, k) ==
  /\ pc[r] = PcOpen(k)
  /\ fs' = fs \cup {PathOf(k, names[r])}
  /\ trace' = [trace EXCEPT ![r] = Append(@, EvOpen(k))]
  /\ pc' = [pc EXCEPT ![r] = PcPipe(k)]
  /\ UNCHANGED <<now, body, names, thrown, toolErr, obs, resp>>

\* the writer emits 'error' (open or write failed): the promise rejects
WriterError(r, k, m, failK) ==
  /\ pc[r] \in {PcOpen(k), PcPipe(k)}
  /\ m \in WriteErrors
  /\ Catch(r, <<EvFail(k)>>, m, failK)
  /\ UNCHANGED <<now, body, names, toolErr>>

\* the response stream errors, stalls or is aborted while its body is piped:
\* pipe() neither ends nor destroys the writer, and the promise listens only
\* to the writer, so neither 'finish' nor 'error' ever reaches it
StreamError(r, k) ==
  /\ pc[r] = PcPipe(k)
  /\ pc' = [pc EXCEPT ![r] = PcStalled(k)]
  /\ UNCHANGED <<now, fs, body, names, thrown, toolErr, obs, trace, resp>>

\* the writer emits 'finish': statSync of the file, then the next phase
\* (audio fetch after the video, ffmpeg().run() after the audio)
WriterFinish(r, k, failK) ==
  /\ pc[r] = PcPipe(k)
  /\ IF PathOf(k, names[r]) \notin fs
     THEN Catch(r, <<EvFail(k)>>, StatError, failK)
     ELSE /\ trace' = [trace EXCEPT ![r] =
                 @ \o <<EvDone(k), IF k = "video" THEN "getAudio" ELSE "ffmpeg">>]
          /\ pc' = [pc EXCEPT ![r] = IF k = "video" THEN "getAudio" ELSE "ffmpeg"]
          /\ UNCHANGED <<fs, thrown, obs, resp>>
  /\ UNCHANGED <<now, body, names, toolErr>>

\* the running tool writes its output file (-y overwrites)
FfmpegWrite(r) ==
  /\ pc[r] = "ffmpeg"
  /\ PathOf("output", names[r]) \notin fs
  /\ fs' = fs \cup {PathOf("output", names[r])}
  /\ UNCHANGED <<now, pc, body, names, thrown, toolErr, obs, trace, resp>>

\* the tool's 'error' event
FfmpegError(r, m, stderr, failK) ==
  /\ pc[r] = "ffmpeg"
  /\ stderr \in StderrTexts
  /\ m \in ToolMessages(stderr)
  /\ toolErr' = [toolErr EXCEPT ![r] = [message |-> m, stderr |-> stderr]]
  /\ Catch(r, <<"ffmpegError">>, FfmpegErrorMessage(m, stderr), failK)
  /\ UNCHANGED <<now, body, names>>

\* the tool's 'end' event: output check, stat, read, base64, cleanup, 200
FfmpegEnd(r, readOk, failK) ==
  /\ pc[r] = "ffmpeg"
  /\ IF PathOf("output", names[r]) \notin fs
     THEN Catch(r, <<"ffmpegEnd", "outputMissing">>,
                <<"Output file was not created">>, failK)
     ELSE IF ~readOk
     THEN Catch(r, <<"ffmpegEnd", "readFail">>, ReadError, failK)
     ELSE LET c == Cleanup(fs, names[r], failK)
          IN /\ fs' = c.fs
             /\ obs' = [obs EXCEPT ![r] = [ran |-> TRUE,
                                           before |-> Existing(fs, names[r]),
                                           after |-> Existing(c.fs, names[r])]]
             /\ trace' = [trace EXCEPT ![r] =
                   @ \o <<"ffmpegEnd", "readOutput", "base64">> \o c.log
                     \o <<"respond">>]
             /\ resp' = [resp EXCEPT ![r] =
                            Append(@, AfterCleanup(c.threw, SuccessResponse))]
             /\ pc' = [pc EXCEPT ![r] = "done"]
             /\ UNCHANGED thrown
  /\ UNCHANGED <<now, body, names, toolErr>>

Next ==
  \/ Tick
  \/ \E r \in Reqs, v \in VideoUrls, a \in AudioUrls : Receive(r, v, a)
  \/ \E r \in Reqs, k \in {"video", "audio"}, m \in FetchErrors,
        failK \in SUBSET KindSet : GetReject(r, k, m, failK)
  \/ \E r \in Reqs, k \in {"video", "audio"} : GetResolve(r, k)
  \/ \E r \in Reqs, k \in {"video", "audio"} : WriterOpen(r, k)
  \/ \E r \in Reqs, k \in {"video", "audio"}, m \in WriteErrors,
        failK \in SUBSET KindSet : WriterError(r, k, m, failK)
  \/ \E r \in Reqs, k \in {"video", "audio"} : StreamError(r, k)
  \/ \E r \in Reqs, k \in {"video", "audio"},
        failK \in SUBSET KindSet : WriterFinish(r, k, failK)
  \/ \E r \in Reqs : FfmpegWrite(r)
  \/ \E r \in Reqs, stderr \in StderrTexts :
        \E m \in ToolMessages(stderr), failK \in SUBSET KindSet :
           FfmpegError(r, m, stderr, failK)
  \/ \E r \in Reqs, readOk \in BOOLEAN,
        failK \in SUBSET KindSet : FfmpegEnd(r, readOk, failK)

Spec == Init /\ [][Next]_vars

\* the events that resume the handler of request r
Handler(r) ==
  \/ \E k \in {"video", "audio"}, m \in FetchErrors,
        failK \in SUBSET KindSet : GetReject(r, k, m, failK)
  \/ \E k \in {"video", "audio"} : GetResolve(r, k)
  \/ \E k \in {"video", "audio"} : WriterOpen(r, k)
  \/ \E k \in {"video", "audio"}, m \in WriteErrors,
        failK \in SUBSET KindSet : WriterError(r, k, m, failK)
  \/ \E k \in {"video", "audio"} : StreamError(r, k)
  \/ \E k \in {"video", "audio"},
        failK \in SUBSET KindSet : WriterFinish(r, k, failK)
  \/ \E stderr \in StderrTexts :
        \E m \in ToolMessages(stderr), failK \in SUBSET KindSet :
           FfmpegError(r, m, stderr, failK)
  \/ \E readOk \in BOOLEAN,
        failK \in SUBSET KindSet : FfmpegEnd(r, readOk, failK)

\* Every pending event of a request is eventually delivered: the network
\* client, the write stream and the tool each report an outcome, and the
\* event loop runs every callback that is due.
FairSpec == Spec /\ \A r \in Reqs : WF_vars(Handler(r))

\* ---- vocabulary of the properties ----
Range(s) == {s[i] : i \in 1..Len(s)}
Count(s, e) == Cardinality({i \in 1..Len(s) : s[i] = e})
\* every occurrence of b in s has an a before it
Precedes(s, a, b) ==
  \A j \in 1..Len(s) : s[j] = b => \E i \in 1..(j - 1) : s[i] = a
Responded(r) == Len(resp[r]) >= 1
PassedValidation(r) == names[r] # NoNames
\* a field that is absent or empty
Missing(x) == x = Undefined \/ x = ""
FailEvents == {"videoFail", "audioFail", "ffmpegError", "outputMissing", "readFail"}
PhaseFailed(r) == Range(trace[r]) \cap FailEvents # {}

TypeOK ==
  /\ now \in 0..MaxTime
  /\ fs \subseteq (KindSet \X (0..MaxTime) \X RandIds)
  /\ \A r \in Reqs : Len(resp[r]) <= 1

\* C1: a request whose videoUrl or audioUrl is absent or empty is answered
\* 400 {error: "Missing required fields", required: [videoUrl, audioUrl]},
\* and for it no temp path is generated, no download started, no tool
\* invoked and no file created, read or deleted.
C1_MissingFieldRejected ==
  \A r \in Reqs :
    (pc[r] # "idle" /\ (Missing(body[r].videoUrl) \/ Missing(body[r].audioUrl)))
      => /\ pc[r] = "done"
         /\ Len(resp[r]) = 1
         /\ resp[r][1].status = 400
         /\ resp[r][1].error = <<"Missing required fields">>
         /\ resp[r][1].required = <<"videoUrl", "audioUrl">>
         /\ names[r] = NoNames
         /\ trace[r] = <<>>
         /\ ~obs[r].ran

\* a request without audioUrl was rejected while the other one is in flight
C1_Witness ==
  \E r \in Reqs, q \in Reqs :
    /\ q # r
    /\ pc[r] = "done"
    /\ body[r].audioUrl = Undefined
    /\ ~Missing(body[r].videoUrl)
    /\ resp[r] = <<Response400>>
    /\ pc[q] = "ffmpeg"

\* C2: when the 200 or 500 response of a validated request has been sent,
\* none of its three temp files exists; deletion being best-effort, the one
\* file allowed to remain is a file whose own unlink was performed and threw.
C2_NoTempFileAfterResponse ==
  \A r \in Reqs :
    (PassedValidation(r) /\ Responded(r))
      => \A k \in obs[r].after : UnlinkEvent(k) \in Range(trace[r])

\* C3: every request that is being handled eventually has exactly one
\* response.
C3_EveryRequestAnswered ==
  \A r \in Reqs : (pc[r] # "idle") ~> (Len(resp[r]) = 1)

C6_CarriesStderr ==
  \A r \in Reqs :
    (toolErr[r] # NoToolErr /\ Responded(r))
      => /\ resp[r][1].status = 500
         /\ toolErr[r].stderr \in Range(resp[r][1].error)
         /\ Range(trace[r]) \cap {"readOutput", "base64"} = {}

\* C6 as amended: after the tool's 'error' event the response is a 500 whose
\* error is "FFmpeg error: " followed by the event's err.message (the stderr
\* text is in it only when that message quotes it), and the output is never
\* read.
C6_CarriesErrMessage ==
  \A r \in Reqs :
    toolErr[r] # NoToolErr
      => /\ Len(resp[r]) = 1
         /\ resp[r][1].status = 500
         /\ resp[r][1].error = <<"FFmpeg error: ">> \o toolErr[r].message
         /\ Range(trace[r]) \cap {"readOutput", "base64"} = {}

\* the tool failed with a message that does not quote its stderr, after it
\* had already written an output file
C6_Witness ==
  \E r \in Reqs :
    /\ toolErr[r] # NoToolErr
    /\ toolErr[r].stderr \notin Range(toolErr[r].message)
    /\ "output" \in obs[r].before
    /\ Responded(r)

\* C7: no temp path is used by two requests that are in flight together.
C7_ExclusivePaths ==
  \A r \in Reqs, q \in Reqs :
    (r # q /\ PassedValidation(r) /\ PassedValidation(q)
       /\ pc[r] # "done" /\ pc[q] # "done")
      => names[r] # names[q]

\* C8: when cleanup runs, every temp file of the request that exists then
\* has its unlink performed, whether or not an earlier unlink threw.
C8_EveryExistingFileUnlinked ==
  \A r \in Reqs :
    obs[r].ran =>
      \A k \in obs[r].before : UnlinkEvent(k) \in Range(trace[r])

\* C9: when an unlink throws during cleanup, the caller still receives the
\* 200 with the payload and stats (success path) or the 500 with the message
\* of the phase failure (failure path).
C9_CleanupFailureNotSurfaced ==
  \A r \in Reqs :
    "cleanupError" \in Range(trace[r])
      => /\ Len(resp[r]) = 1
         /\ IF "catch" \in Range(trace[r])
            THEN /\ resp[r][1].status = 500
                 /\ resp[r][1].success = "false"
                 /\ thrown[r] # NoError
                 /\ resp[r][1].error = thrown[r]
            ELSE /\ resp[r][1].status = 200
                 /\ resp[r][1].success = "true"
                 /\ resp[r][1].base64 = "present"
                 /\ resp[r][1].stats = "present"

\* cleanup threw on the success path of one request and on the failure path
\* of the other
C9_Witness ==
  \E r \in Reqs, q \in Reqs :
    /\ "cleanupError" \in Range(trace[r])
    /\ "catch" \notin Range(trace[r])
    /\ Responded(r)
    /\ "cleanupError" \in Range(trace[q])
    /\ "catch" \in Range(trace[q])
    /\ Responded(q)

\* C10: if the tool reports 'end' and the output path does not exist, the
\* request gets 500 'Output file was not created', the output is never read
\* or encoded, and the downloaded video and audio files that exist have
\* their deletion carried out by cleanup.
C10_OutputMissing ==
  \A r \in Reqs :
    "outputMissing" \in Range(trace[r])
      => /\ Len(resp[r]) = 1
         /\ resp[r][1].status = 500
         /\ resp[r][1].error = <<"Output file was not created">>
         /\ Range(trace[r]) \cap {"readOutput", "base64"} = {}
         /\ \A k \in obs[r].before \cap {"video", "audio"} :
               UnlinkEvent(k) \in Range(trace[r])

====
